---------------------------- MODULE Spec2Model ----------------------------
(***************************************************************************)
(* EpubBuilder of react-native-epub-creator.                               *)
(*                                                                         *)
(* The repository holds two builders:                                      *)
(*   "main"  src/src/main.ts        (react-native-saf-x, zip-archive)      *)
(*   "expo"  src/unnamed/part_002   (expo-file-system, JSZip, with the     *)
(*                                   structural repair fixEpubStructure)   *)
(* Both are modelled; the variable impl says which one a behaviour runs.   *)
(*                                                                         *)
(* Text is modelled as a sequence of tokens (records with a field t), a    *)
(* path as a record [dir, stem, ext], an id as a record [p, n] where n is  *)
(* the decimal suffix (-1: none).                                          *)
(***************************************************************************)
EXTENDS Integers, Sequences, FiniteSets, TLC

\* ------------------------------------------------------------------ bounds

\* the files the generator has to choose from, counted from the head of GenPool
MaxFiles == 3
\* most progress callbacks the generator makes in one run
MaxGenCalls == 1
\* most chapters a builder holds
MaxChapters == 2
\* most API calls made on one builder in one behaviour
MaxCalls == 3
\* most file operations that fail in one behaviour
MaxFaults == 1
\* most markup files of a staged tree the repair is run on alone
MaxChapterFiles == 2
\* most runs of the repair on one tree
MaxRuns == 2
\* API calls each of two concurrent builders makes
MaxPairCalls == 2

\* ------------------------------------------------------------- small helpers

Range(s) == {s[i] : i \in DOMAIN s}

\* all orders in which a directory listing can return the members of S
RECURSIVE Perms(_)
Perms(S) ==
  IF S = {} THEN {<<>>}
  ELSE UNION {{<<x>> \o s : s \in Perms(S \ {x})} : x \in S}

RECURSIVE Concat(_)
Concat(ss) == IF ss = <<>> THEN <<>> ELSE Head(ss) \o Concat(Tail(ss))

\* first index i >= from with P-kind seq[i].t = kind, 0 when there is none
RECURSIVE FirstAt(_, _, _)
FirstAt(s, from, kinds) ==
  IF from > Len(s) THEN 0
  ELSE IF s[from].t \in kinds THEN from
  ELSE FirstAt(s, from + 1, kinds)

Path(dir, stem, ext) == [dir |-> dir, stem |-> stem, ext |-> ext]

Id(p, n) == [p |-> p, n |-> n]


\* --------------------------------------------------------------- text tokens

MimetypeText == <<[t |-> "text", v |-> "application/epub+zip"]>>

Text(v) == [t |-> "text", v |-> v]

Nl == [t |-> "nl"]

Indent == [t |-> "indent"]

XhtmlType == "application/xhtml+xml"

CssType == "text/css"

NcxType == "application/x-dtbncx+xml"

\* <item id=".." href=".." media-type=".." [properties="nav"]/>
Item(id, href, mt, nav) ==
  [t |-> "item", id |-> id, href |-> href, mt |-> mt, nav |-> nav]

ItemRef(id) == [t |-> "itemref", idref |-> id]

\* href of a file of the package root EPUB/, relative to it
Href(dir, stem, ext) == [dir |-> dir, stem |-> stem, ext |-> ext]

NavHref == Href("", "toc", "xhtml")

\* the token kinds /<manifest>/, /<spine[^>]*>/ and /<navMap>/ match: of the
\* manifest and the navMap only the bare tag (not manifestOpenAttrs and
\* navMapOpenAttrs, the tags with attributes), of the spine every opening
\* tag, the self-closing <spine/> included
ManifestOpenKinds == {"manifestOpen"}

SpineOpenKinds == {"spineOpen", "spineEmpty"}

NavMapOpenKinds == {"navMapOpen"}

\* ------------------------------------------------------- the staged tree

\* a tree is [dirs: the directories that exist, files: path -> content]
EmptyTree == [dirs |-> {}, files |-> <<>>]

FileExists(tree, p) == p \in DOMAIN tree.files

PutFile(tree, p, c) ==
  [tree EXCEPT !.files = [q \in (DOMAIN tree.files) \cup {p} |->
                            IF q = p THEN c ELSE tree.files[q]]]

DelFile(tree, p) ==
  [tree EXCEPT !.files = [q \in (DOMAIN tree.files) \ {p} |-> tree.files[q]]]

\* a directory and the directories above it
DirsOf(dir) ==
  IF dir = "" THEN {}
  ELSE IF dir = "EPUB/content" THEN {"EPUB", "EPUB/content"}
  ELSE IF dir = "OEBPS/images" THEN {"OEBPS", "OEBPS/images"}
  ELSE {dir}

MkDirs(tree, dir) == [tree EXCEPT !.dirs = tree.dirs \cup DirsOf(dir)]

FilesIn(tree, dir) == {p \in DOMAIN tree.files : p.dir = dir}

\* ------------------------------------------------ block search and replace

\* RegExp.exec of /<open>[\s\S]*?<\/close>/: the leftmost opening tag that a
\* closing tag follows, up to the first such closing tag; <<0, 0>>: no match
MatchBlock(doc, openKinds, closeKind) ==
  LET i == FirstAt(doc, 1, openKinds)
      j == IF i = 0 THEN 0 ELSE FirstAt(doc, i + 1, {closeKind})
  IN IF j = 0 THEN <<0, 0>> ELSE <<i, j>>

\* String.replace(regex, block): the first match is replaced, no match
\* leaves the text as it is
ReplaceBlock(doc, openKinds, closeKind, block) ==
  LET m == MatchBlock(doc, openKinds, closeKind)
  IN IF m[1] = 0 THEN doc
     ELSE SubSeq(doc, 1, m[1] - 1) \o block \o SubSeq(doc, m[2] + 1, Len(doc))

\* String.match(/<item[^>]*media-type="mt"[^>]*>/g)
ItemsOfType(content, mt) ==
  SelectSeq(content, LAMBDA tok : tok.t = "item" /\ tok.mt = mt)


\* ------------------------------------------- fixEpubStructure (the repair)

EpubDir == "EPUB"

ContentDir == "EPUB/content"

NavPath == Path(EpubDir, "toc", "xhtml")

AltNavPath == Path(EpubDir, "toc", "html")

NcxPath == Path(EpubDir, "toc", "ncx")

\* item.name.endsWith('.html') || item.name.endsWith('.xhtml')
IsMarkup(p) == p.ext \in {"html", "xhtml"}

\* the files the chapter scan looks at: those of content/ when that directory
\* exists, otherwise those of the package root
ChapterCandidates(tree) ==
  IF ContentDir \in tree.dirs
  THEN {p \in FilesIn(tree, ContentDir) : IsMarkup(p)}
  ELSE {p \in FilesIn(tree, EpubDir) : IsMarkup(p)}

\* `content/${item.name}` or item.name
ChapterHref(p) ==
  IF p.dir = ContentDir THEN Href("content", p.stem, p.ext)
  ELSE Href("", p.stem, p.ext)

\* /\.opf$/ on the names of the package root
OpfCandidates(tree) == {p \in FilesIn(tree, EpubDir) : p.ext = "opf"}

\* idMap: chapterFiles[i] -> `chapter${i}`, 0-based
ChapterId(i) == Id("chapter", i - 1)

ChapterItems(chapterFiles) ==
  Concat([i \in DOMAIN chapterFiles |->
            <<Item(ChapterId(i), chapterFiles[i], XhtmlType, FALSE), Nl>>])

NavItem == Item(Id("nav", -1), NavHref, XhtmlType, TRUE)

\* the text between <manifest> and </manifest> that the repair writes
NewManifestContent(old, chapterFiles) ==
  Concat([i \in DOMAIN ItemsOfType(old, CssType) |->
            <<ItemsOfType(old, CssType)[i], Nl>>])
  \o Concat([i \in DOMAIN ItemsOfType(old, NcxType) |->
            <<ItemsOfType(old, NcxType)[i], Nl>>])
  \o ChapterItems(chapterFiles)
  \o <<NavItem, Nl>>

\* '<spine toc="ncx">\n' ('  <itemref idref="id"/>\n')* '</spine>'
NewSpine(chapterFiles) ==
  <<[t |-> "spineOpen", attrs |-> "toc=ncx"], Nl>>
  \o Concat([i \in DOMAIN chapterFiles |->
               <<Indent, ItemRef(ChapterId(i)), Nl>>])
  \o <<[t |-> "spineClose"]>>

\* one navPoint of the NCX, its navLabel and content lines included
NavPoint(id, order, src) ==
  [t |-> "navPoint", id |-> id, playOrder |-> order, label |-> order,
   src |-> src]

NewNavMap(chapterFiles) ==
  <<[t |-> "navMapOpen"], Nl>>
  \o Concat([i \in DOMAIN chapterFiles |->
               <<NavPoint(ChapterId(i), i, chapterFiles[i])>>])
  \o <<[t |-> "navMapClose"]>>

\* createNavigationDocument: one <li><a href=file>Chapter k</a></li> per
\* chapter file, k counted from 1
Li(href, k) == [t |-> "li", href |-> href, label |-> k]

\* a navigation builder that counts the labels from 0
CreateNavigationDocumentFromZero(chapterFiles) ==
  <<Text("navhead")>>
  \o [i \in DOMAIN chapterFiles |-> Li(chapterFiles[i], i - 1)]
  \o <<Text("navfoot")>>

CreateNavigationDocument(chapterFiles) ==
  <<Text("navhead")>>
  \o [i \in DOMAIN chapterFiles |-> Li(chapterFiles[i], i)]
  \o <<Text("navfoot")>>

\* the manifest step: only when the manifest block is found; it writes the
\* navigation document when neither toc.xhtml nor toc.html exists
FixManifest(doc, chapterFiles) ==
  LET m == MatchBlock(doc, ManifestOpenKinds, "manifestClose")
  IN IF m[1] = 0 THEN doc
     ELSE ReplaceBlock(doc, ManifestOpenKinds, "manifestClose",
            <<[t |-> "manifestOpen"]>>
            \o NewManifestContent(SubSeq(doc, m[1] + 1, m[2] - 1), chapterFiles)
            \o <<[t |-> "manifestClose"]>>)

NavFileExists(tree) == FileExists(tree, NavPath) \/ FileExists(tree, AltNavPath)

FixSpine(doc, chapterFiles) ==
  ReplaceBlock(doc, SpineOpenKinds, "spineClose", NewSpine(chapterFiles))

FixNcx(doc, chapterFiles) ==
  ReplaceBlock(doc, NavMapOpenKinds, "navMapClose", NewNavMap(chapterFiles))

\* fixEpubStructure on a tree whose package document is opf, the chapter scan
\* having listed the chapter files in the order listing
FixEpubStructure(tree, listing, opf) ==
  LET chapterFiles == [i \in DOMAIN listing |-> ChapterHref(listing[i])]
      doc == tree.files[opf]
      found == MatchBlock(doc, ManifestOpenKinds, "manifestClose")[1] # 0
      t1 == IF found /\ ~NavFileExists(tree)
            THEN PutFile(tree, NavPath, CreateNavigationDocument(chapterFiles))
            ELSE tree
      t2 == PutFile(t1, opf, FixSpine(FixManifest(doc, chapterFiles), chapterFiles))
  IN IF FileExists(t2, NcxPath)
     THEN PutFile(t2, NcxPath, FixNcx(t2.files[NcxPath], chapterFiles))
     ELSE t2

\* every tree a run of the repair can leave: one per listing order and per
\* package document the scan can meet first; without a package document the
\* repair returns and leaves the tree as it is
RepairOutcomes(tree) ==
  IF OpfCandidates(tree) = {} THEN {tree}
  ELSE {FixEpubStructure(tree, listing, opf) :
          listing \in Perms(ChapterCandidates(tree)), opf \in OpfCandidates(tree)}


\* ------------------------------------------------ the content generator

MimetypePath == Path("", "mimetype", "")

OpfPath == Path(EpubDir, "content", "opf")

ChapterPath(stem) == Path(ContentDir, stem, "xhtml")

ImagePath == Path("OEBPS/images", "cover", "jpg")

ScriptPath(dir) == Path(dir, "script", "js")

GenFile(path, content, isImage) ==
  [path |-> path, content |-> content, isImage |-> isImage]

\* a package document as the generator writes it: a manifest with a
\* stylesheet, the NCX and a chapter under a title-derived id, and a spine
\* that references that id
GenOpf ==
  <<Text("package"), [t |-> "manifestOpen"],
    Item(Id("css", -1), Href("", "styles", "css"), CssType, FALSE),
    Item(Id("x", -1), Href("content", "a", "xhtml"), XhtmlType, FALSE),
    [t |-> "manifestClose"],
    [t |-> "spineOpen", attrs |-> ""], ItemRef(Id("x", -1)), [t |-> "spineClose"],
    Text("/package")>>

\* the files a generator run can emit, in the order it emits them; the
\* chapter a.xhtml is there twice, with two contents
GenPool ==
  <<GenFile(MimetypePath, MimetypeText, FALSE),
    GenFile(OpfPath, GenOpf, FALSE),
    GenFile(ChapterPath("a"), <<Text("c1")>>, FALSE),
    GenFile(ChapterPath("a"), <<Text("c2")>>, FALSE)>>

\* a generator run that emits a script and an image
GenAssets ==
  <<GenFile(ScriptPath(EpubDir), <<Text("js")>>, FALSE),
    GenFile(ImagePath, <<Text("file:///cover.jpg")>>, TRUE)>>

\* generator runs that place the chapter directly in the package root, without
\* and with a navigation document next to it
GenRootBooks ==
  {<<GenFile(OpfPath, GenOpf, FALSE),
     GenFile(Path(EpubDir, "a", "xhtml"), <<Text("c1")>>, FALSE)>> \o nav :
     nav \in {<<>>, <<GenFile(NavPath, <<Text("nav")>>, FALSE)>>}}

\* a generator run that emits the chapter a.xhtml twice, with two contents
GenTwice ==
  <<GenFile(ChapterPath("a"), <<Text("c1")>>, FALSE),
    GenFile(ChapterPath("a"), <<Text("c2")>>, FALSE)>>

\* the subsequence of s at the indices of mask, in order
RECURSIVE SubByMask(_, _, _)
SubByMask(s, mask, i) ==
  IF i > Len(s) THEN <<>>
  ELSE (IF i \in mask THEN <<s[i]>> ELSE <<>>) \o SubByMask(s, mask, i + 1)

\* what constructEpub can return: any selection of the first MaxFiles files
\* of the pool, or the script and the image, or a book with its chapter in
\* the package root, or one chapter twice. The generator is a function of the
\* settings: one builder gets the same files from every run
GenOutputs ==
  {SubByMask(GenPool, mask, 1) : mask \in SUBSET {i \in DOMAIN GenPool : i <= MaxFiles}}
  \cup {GenAssets} \cup GenRootBooks \cup {GenTwice}

\* the values the generator passes to its progress callback
GenValues == {0, 100}

\* ------------------------------------------------------------------- state

Builders == {1, 2}

VARIABLES
  impl,     \* which builder class the behaviour runs: "main" or "expo"
  genOut,   \* per builder, the files the generator makes of its settings
  active,   \* the builder instances that exist
  bld,      \* per builder, its fields: prepared, tempPath, outputPath, chapters, dProgress
  run,      \* per builder, the call in progress: position, arguments, locals
  res,      \* per builder, how its last finished call ended
  fsRoot,   \* per builder, its working root directory: exists, tree
  fsTmp,    \* the temporary output root, one path for every builder
  fsDest,   \* per builder, what the destination path of its archive holds
  fsStray,  \* per builder, whether files were written below the literal "undefined/"
  evt,      \* per builder, the last progress event of the save() in progress
  calls,    \* per builder, the number of API calls made
  faults,   \* the number of file operations that have failed
  rtree,    \* repair alone: the tree
  rin,      \* repair alone: the tree the last run started from
  rchap,    \* repair alone: the chapter files of the last run, in its listing order
  rres,     \* repair alone: how the last run ended
  rruns     \* repair alone: the runs made

lifeVars == <<impl, genOut, active, bld, run, res, fsRoot, fsTmp, fsDest, fsStray, evt, calls,
              faults>>

repairVars == <<rtree, rin, rchap, rres, rruns>>

vars == <<impl, genOut, active, bld, run, res, fsRoot, fsTmp, fsDest, fsStray, evt, calls,
          faults, rtree, rin, rchap, rres, rruns>>

NoError == "none"

\* settings.chapters: undefined, or the list
NoChapters == [def |-> FALSE, list |-> <<>>]

ChapterList(l) == [def |-> TRUE, list |-> l]

\* no progress event yet
NoEvent == -1

IdleRun ==
  [pc |-> "idle", op |-> "none", rm |-> TRUE, files |-> <<>>, idx |-> 0,
   gen |-> 0, gv |-> 0, raised |-> NoError, cont |-> "none", zip |-> <<>>,
   wrote |-> FALSE, failed |-> FALSE, rmfail |-> FALSE, at |-> "none",
   f0 |-> 0]

NoResult == [op |-> "none", status |-> "none", err |-> NoError, clean |-> TRUE]

Absent == [kind |-> "absent", entries |-> <<>>]

\* an archive of an earlier run of the application, at the destination path
OldArchive == [kind |-> "old", entries |-> <<>>]

EmptyFile == [kind |-> "empty", entries |-> <<>>]

Archive(entries) == [kind |-> "archive", entries |-> entries]

NoRoot == [exists |-> FALSE, tree |-> EmptyTree]

NoTmp == [exists |-> FALSE, files |-> <<>>]

NoEvents == [last |-> NoEvent]

\* the constructor: main.ts takes the destination folder or leaves it
\* undefined, part_002 requires it; settings.chapters is given or not
InitLife(act, outs) ==
  /\ impl \in {"main", "expo"}
  /\ active = act
  /\ genOut \in [Builders -> outs \cup {<<>>}]
  /\ \A b \in Builders : b \notin act => genOut[b] = <<>>
  /\ bld \in [Builders -> [prepared : {FALSE}, tempPath : {FALSE},
                           outputPath : BOOLEAN,
                           chapters : {NoChapters, ChapterList(<<>>)},
                           dProgress : {0}]]
  /\ \A b \in Builders : impl = "expo" \/ b \notin act => bld[b].outputPath
  /\ \A b \in Builders : b \notin act => bld[b].chapters = NoChapters
  /\ run = [b \in Builders |-> IdleRun]
  /\ res = [b \in Builders |-> NoResult]
  /\ fsRoot = [b \in Builders |-> NoRoot]
  /\ fsTmp = NoTmp
  /\ fsDest \in [Builders -> {Absent, OldArchive}]
  /\ \A b \in Builders : b \notin act => fsDest[b] = Absent
  /\ fsStray = [b \in Builders |-> FALSE]
  /\ evt = [b \in Builders |-> NoEvents]
  /\ calls = [b \in Builders |-> 0]
  /\ faults = 0

RepairIdle ==
  /\ rtree = EmptyTree
  /\ rin = EmptyTree
  /\ rchap = <<>>
  /\ rres = "none"
  /\ rruns = 0

\* ------------------------------------------------------- call bookkeeping

Pc(b) == run[b].pc

\* a call returns; clean: no file operation failed during the call
Return(b) ==
  /\ res' = [res EXCEPT ![b] = [op |-> run[b].op, status |-> "ok", err |-> NoError,
                                clean |-> faults' = run[b].f0]]

\* a call raises e to its caller
Raise(b, e) ==
  /\ res' = [res EXCEPT ![b] = [op |-> run[b].op, status |-> "error", err |-> e,
                                clean |-> faults' = run[b].f0]]

\* the frame of a call that has ended: the locals are gone, what the call
\* did stays readable: op; wrote, the archive was written to the output
\* file; raised, the first error thrown; failed, a staging operation failed;
\* rmfail, the removal of the working root failed; at, the position at which
\* the call threw or, when it did not throw, ended
Ended(r) ==
  [IdleRun EXCEPT !.op = r.op, !.wrote = r.wrote, !.raised = r.raised,
                  !.failed = r.failed, !.rmfail = r.rmfail,
                  !.at = IF r.at = "none" THEN r.pc ELSE r.at]

\* a new call starts at pc
Started(op, pc) == [IdleRun EXCEPT !.op = op, !.pc = pc, !.f0 = faults]

\* the file operations that fail in one behaviour: none while two builders
\* run, whose steps interleave with every file operation succeeding
FaultLimit == IF active = Builders THEN 0 ELSE MaxFaults

\* a file operation fails
Fault == faults < FaultLimit /\ faults' = faults + 1

NoFault == UNCHANGED faults

\* the calls a builder makes in one behaviour: fewer when two builders run
CallLimit == IF active = Builders THEN MaxPairCalls ELSE MaxCalls

CanCall(b) == b \in active /\ Pc(b) = "idle" /\ calls[b] < CallLimit


\* --------------------------------------------- main.ts: prepare, discard

\* prepare(): prepared is set before anything else, then createTempFolder
MainPrepare(b) ==
  /\ impl = "main" /\ CanCall(b)
  /\ NoFault
  /\ calls' = [calls EXCEPT ![b] = @ + 1]
  /\ bld' = [bld EXCEPT ![b].prepared = TRUE, ![b].tempPath = TRUE]
  /\ run' = [run EXCEPT ![b] = Started("prepare", "m_mkroot")]
  /\ UNCHANGED <<impl, genOut, active, res, fsRoot, fsTmp, fsDest, fsStray, evt, repairVars>>

\* where createTempFolder goes on after the working root is there
MainAfterRoot(b) ==
  IF ~bld[b].outputPath THEN "m_pick"
  ELSE IF run[b].op = "prepare" THEN "m_prepfin" ELSE "m_gen"

\* createTempFolder: validateDir(tempPath), a mkdir that can fail
MainMkRoot(b) ==
  /\ impl = "main" /\ b \in active /\ Pc(b) = "m_mkroot"
  /\ \/ /\ NoFault
        /\ fsRoot' = [fsRoot EXCEPT ![b].exists = TRUE]
        /\ run' = [run EXCEPT ![b].pc = MainAfterRoot(b)]
        /\ UNCHANGED res
     \/ /\ Fault
        /\ ~fsRoot[b].exists
        /\ Raise(b, "IOError")
        /\ run' = [run EXCEPT ![b] = Ended([run[b] EXCEPT !.raised = "IOError"])]
        /\ UNCHANGED fsRoot
  /\ UNCHANGED <<impl, genOut, active, bld, fsTmp, fsDest, fsStray, evt, calls, repairVars>>

\* pickFolder: the picker returns a folder or the call throws
MainPickFolder(b) ==
  /\ impl = "main" /\ b \in active /\ Pc(b) = "m_pick"
  /\ NoFault
  /\ \/ /\ bld' = [bld EXCEPT ![b].outputPath = TRUE]
        /\ run' = [run EXCEPT ![b].pc =
                     IF run[b].op = "prepare" THEN "m_prepfin" ELSE "m_gen"]
        /\ UNCHANGED res
     \/ /\ Raise(b, "PermissionError")
        /\ run' = [run EXCEPT ![b] = Ended([run[b] EXCEPT !.raised = "PermissionError"])]
        /\ UNCHANGED bld
  /\ UNCHANGED <<impl, genOut, active, fsRoot, fsTmp, fsDest, fsStray, evt, calls, repairVars>>

\* the end of prepare(): an undefined chapter list becomes the empty list
MainPrepareFinish(b) ==
  /\ impl = "main" /\ b \in active /\ Pc(b) = "m_prepfin"
  /\ NoFault
  /\ bld' = [bld EXCEPT ![b].chapters =
               IF @.def THEN @ ELSE ChapterList(<<>>)]
  /\ Return(b)
  /\ run' = [run EXCEPT ![b] = Ended(run[b])]
  /\ UNCHANGED <<impl, genOut, active, fsRoot, fsTmp, fsDest, fsStray, evt, calls, repairVars>>

\* addChapter: throws unless prepared and the chapter list is defined
MainAddChapter(b, c) ==
  /\ impl = "main" /\ CanCall(b)
  /\ NoFault
  /\ calls' = [calls EXCEPT ![b] = @ + 1]
  /\ IF ~bld[b].prepared \/ ~bld[b].chapters.def
     THEN /\ res' = [res EXCEPT ![b] =
                       [op |-> "addChapter", status |-> "error", err |-> "StateError",
                        clean |-> TRUE]]
          /\ UNCHANGED bld
     ELSE /\ Len(bld[b].chapters.list) < MaxChapters
          /\ bld' = [bld EXCEPT ![b].chapters.list = Append(@, c)]
          /\ res' = [res EXCEPT ![b] =
                       [op |-> "addChapter", status |-> "ok", err |-> NoError,
                        clean |-> TRUE]]
  /\ run' = [run EXCEPT ![b] = Ended(Started("addChapter", "idle"))]
  /\ UNCHANGED <<impl, genOut, active, fsRoot, fsTmp, fsDest, fsStray, evt, repairVars>>

\* where a discardChanges goes on when it is done: back to the caller of
\* discardChanges(), or on in the save() that called it
MainDiscardDone(b) ==
  /\ bld' = [bld EXCEPT ![b].tempPath = FALSE]
  /\ IF run[b].cont = "finish"
     THEN /\ run' = [run EXCEPT ![b].pc = "m_fin"]
          /\ UNCHANGED res
     ELSE /\ Return(b)
          /\ run' = [run EXCEPT ![b] = Ended(run[b])]

\* a discardChanges() that rejects a builder without a working root path
MainDiscardChangesStrict(b) ==
  /\ impl = "main" /\ CanCall(b)
  /\ NoFault
  /\ calls' = [calls EXCEPT ![b] = @ + 1]
  /\ IF bld[b].tempPath
     THEN /\ run' = [run EXCEPT ![b] =
                       [Started("discard", "md_root") EXCEPT !.cont = "return"]]
          /\ UNCHANGED <<res, bld>>
     ELSE /\ res' = [res EXCEPT ![b] =
                       [op |-> "discard", status |-> "error", err |-> "StateError",
                        clean |-> TRUE]]
          /\ run' = [run EXCEPT ![b] =
                       Ended([Started("discard", "idle") EXCEPT !.raised = "StateError"])]
          /\ UNCHANGED bld
  /\ UNCHANGED <<impl, genOut, active, fsRoot, fsTmp, fsDest, fsStray, evt, repairVars>>

\* discardChanges(): nothing is removed when tempPath is undefined
MainDiscardChanges(b) ==
  /\ impl = "main" /\ CanCall(b)
  /\ NoFault
  /\ calls' = [calls EXCEPT ![b] = @ + 1]
  /\ IF bld[b].tempPath
     THEN /\ run' = [run EXCEPT ![b] =
                       [Started("discard", "md_root") EXCEPT !.cont = "return"]]
          /\ UNCHANGED <<res, bld>>
     ELSE /\ res' = [res EXCEPT ![b] =
                       [op |-> "discard", status |-> "ok", err |-> NoError, clean |-> TRUE]]
          /\ run' = [run EXCEPT ![b] = Ended(Started("discard", "idle"))]
          /\ bld' = [bld EXCEPT ![b].tempPath = FALSE]
  /\ UNCHANGED <<impl, genOut, active, fsRoot, fsTmp, fsDest, fsStray, evt, repairVars>>

\* removeDir(tempPath): unlink when it exists; a failing unlink is rethrown
MainRmRoot(b) ==
  /\ impl = "main" /\ b \in active /\ Pc(b) = "md_root"
  /\ \/ /\ NoFault
        /\ fsRoot' = [fsRoot EXCEPT ![b] = NoRoot]
        /\ run' = [run EXCEPT ![b].pc = "md_tmp"]
        /\ UNCHANGED res
     \/ /\ Fault
        /\ fsRoot[b].exists
        /\ Raise(b, "IOError")
        /\ run' = [run EXCEPT ![b] =
                     Ended([run[b] EXCEPT !.raised = "IOError", !.rmfail = TRUE])]
        /\ UNCHANGED fsRoot
  /\ UNCHANGED <<impl, genOut, active, bld, fsTmp, fsDest, fsStray, evt, calls, repairVars>>

\* removeDir(tempOutputPath), then tempPath = undefined
MainRmTmp(b) ==
  /\ impl = "main" /\ b \in active /\ Pc(b) = "md_tmp"
  /\ \/ /\ NoFault
        /\ fsTmp' = NoTmp
        /\ MainDiscardDone(b)
     \/ /\ Fault
        /\ fsTmp.exists
        /\ Raise(b, "IOError")
        /\ run' = [run EXCEPT ![b] = Ended([run[b] EXCEPT !.raised = "IOError"])]
        /\ UNCHANGED <<fsTmp, bld>>
  /\ UNCHANGED <<impl, genOut, active, fsRoot, fsDest, fsStray, evt, calls, repairVars>>


\* ---------------------------------------------------- progress callbacks

\* EpubBuilder.onProgress(v, ...): the value delivered. The optional
\* onSaveProgress is taken as unset
Emit(e, v) == [last |-> v]

\* ((i + 1) / len) * 100 for the i-th file, i counted from 1 here
Percent(i, len) == (i * 100) \div len

\* ----------------------------------------------------- main.ts: populate

\* overrideFiles.find(f => file.path.indexOf(f) !== -1)
MainIsOverride(p) ==
  \/ p.ext \in {"opf", "json"}
  \/ p.stem = "toc" /\ p.ext \in {"ncx", "html"}

\* !checkFile(file.path).isDirectory: the name holds a known extension
MainLooksLikeFile(p) ==
  \/ p.ext \in {"json", "html", "xml", "opf", "ncx", "css", "epub"}
  \/ p.stem = "mimetype"

\* one file of the staging loop, every file operation succeeding:
\* an override file that exists is unlinked; a file that exists is left as
\* it is; the mimetype file is never written
MainStageTree(tree, file) ==
  LET t1 == IF MainIsOverride(file.path) /\ FileExists(tree, file.path)
            THEN DelFile(tree, file.path) ELSE tree
      t2 == IF MainLooksLikeFile(file.path) THEN MkDirs(t1, file.path.dir) ELSE t1
  IN IF FileExists(t2, file.path) THEN t2
     ELSE IF file.isImage
          THEN PutFile(MkDirs(t2, "OEBPS/images"), file.path, file.content)
     ELSE IF file.path # MimetypePath
          THEN PutFile(MkDirs(t2, file.path.dir), file.path, file.content)
     ELSE t2

\* the trees a failing file operation of that iteration can leave: the tree
\* as it was, or the tree after the unlink
MainStageFailures(tree, file) ==
  IF ~ \/ MainIsOverride(file.path) /\ FileExists(tree, file.path)
       \/ ~FileExists(tree, file.path) /\ (file.isImage \/ file.path # MimetypePath)
       \/ MainLooksLikeFile(file.path) /\ ~(DirsOf(file.path.dir) \subseteq tree.dirs)
  THEN {}
  ELSE {tree} \cup
       (IF MainIsOverride(file.path) /\ FileExists(tree, file.path)
        THEN {DelFile(tree, file.path)} ELSE {})


\* ---------------------------------------------------------- main.ts: save

\* save(removeTempFile): createTempFolder when prepare() was never called
MainSave(b, rm) ==
  /\ impl = "main" /\ CanCall(b)
  /\ NoFault
  /\ calls' = [calls EXCEPT ![b] = @ + 1]
  /\ evt' = [evt EXCEPT ![b] = NoEvents]
  /\ IF ~bld[b].prepared
     THEN /\ bld' = [bld EXCEPT ![b].tempPath = TRUE]
          /\ run' = [run EXCEPT ![b] = [Started("save", "m_mkroot") EXCEPT !.rm = rm]]
     ELSE /\ run' = [run EXCEPT ![b] = [Started("save", "m_gen") EXCEPT !.rm = rm]]
          /\ UNCHANGED bld
  /\ UNCHANGED <<impl, genOut, active, res, fsRoot, fsTmp, fsDest, fsStray, repairVars>>

\* the generator calls its progress callback: the static hook gets the
\* builder's dProgress, not the generator's value
MainGenProgress(b, v) ==
  /\ impl = "main" /\ b \in active /\ Pc(b) = "m_gen"
  /\ NoFault
  /\ run[b].gen < MaxGenCalls /\ v >= run[b].gv
  /\ evt' = [evt EXCEPT ![b] = Emit(@, bld[b].dProgress)]
  /\ run' = [run EXCEPT ![b].gen = @ + 1, ![b].gv = v]
  /\ UNCHANGED <<impl, genOut, active, bld, res, fsRoot, fsTmp, fsDest, fsStray, calls, repairVars>>

\* the generator raises: nothing catches it in populate() or save()
MainGenRaise(b) ==
  /\ impl = "main" /\ b \in active /\ Pc(b) = "m_gen"
  /\ NoFault
  /\ Raise(b, "GenError")
  /\ run' = [run EXCEPT ![b] = Ended([run[b] EXCEPT !.raised = "GenError"])]
  /\ UNCHANGED <<impl, genOut, active, bld, fsRoot, fsTmp, fsDest, fsStray, evt, calls, repairVars>>

\* constructEpub returns the files; dProgress = 0
MainGenReturn(b) ==
  LET fs == genOut[b] IN
  /\ impl = "main" /\ b \in active /\ Pc(b) = "m_gen"
  /\ NoFault
  /\ bld' = [bld EXCEPT ![b].dProgress = 0]
  /\ run' = [run EXCEPT ![b].files = fs, ![b].idx = 1, ![b].gen = 0, ![b].gv = 0,
                        ![b].pc = IF fs = <<>> THEN "m_rmtmp" ELSE "m_stage"]
  /\ UNCHANGED <<impl, genOut, active, res, fsRoot, fsTmp, fsDest, fsStray, evt, calls, repairVars>>

\* one iteration of the staging loop. With tempPath undefined the path is
\* "undefined/" + file.path, outside the working root
MainStage(b) ==
  LET file == run[b].files[run[b].idx]
      len == Len(run[b].files) + 1
      p == Percent(run[b].idx, len)
      tree == fsRoot[b].tree
      next == IF run[b].idx = Len(run[b].files) THEN "m_rmtmp" ELSE "m_stage"
  IN
  /\ impl = "main" /\ b \in active /\ Pc(b) = "m_stage"
  /\ bld' = [bld EXCEPT ![b].dProgress = p]
  /\ \/ /\ NoFault
        /\ IF bld[b].tempPath
           THEN /\ fsRoot' = [fsRoot EXCEPT ![b] =
                                [exists |-> TRUE, tree |-> MainStageTree(tree, file)]]
                /\ UNCHANGED fsStray
           ELSE /\ fsStray' = [fsStray EXCEPT ![b] = TRUE]
                /\ UNCHANGED fsRoot
        /\ evt' = [evt EXCEPT ![b] =
                     IF bld[b].outputPath THEN Emit(@, p) ELSE @]
        /\ run' = [run EXCEPT ![b].idx = @ + 1, ![b].pc = next]
        /\ UNCHANGED res
     \/ /\ Fault
        /\ bld[b].tempPath
        /\ \E t \in MainStageFailures(tree, file) :
             fsRoot' = [fsRoot EXCEPT ![b].tree = t]
        /\ Raise(b, "IOError")
        /\ run' = [run EXCEPT ![b] =
                     Ended([run[b] EXCEPT !.raised = "IOError", !.failed = TRUE])]
        /\ UNCHANGED <<evt, fsStray>>
  /\ UNCHANGED <<impl, genOut, active, fsTmp, fsDest, calls, repairVars>>

\* removeDir(tempOutputPath) after populate()
MainClearTmp(b) ==
  /\ impl = "main" /\ b \in active /\ Pc(b) = "m_rmtmp"
  /\ \/ /\ NoFault
        /\ fsTmp' = NoTmp
        /\ run' = [run EXCEPT ![b].pc = IF bld[b].tempPath THEN "m_mktmp" ELSE "m_fin"]
        /\ UNCHANGED res
     \/ /\ Fault
        /\ fsTmp.exists
        /\ Raise(b, "IOError")
        /\ run' = [run EXCEPT ![b] = Ended([run[b] EXCEPT !.raised = "IOError"])]
        /\ UNCHANGED fsTmp
  /\ UNCHANGED <<impl, genOut, active, bld, fsRoot, fsDest, fsStray, evt, calls, repairVars>>

\* validateDir(tempOutputPath)
MainMkTmp(b) ==
  /\ impl = "main" /\ b \in active /\ Pc(b) = "m_mktmp"
  /\ \/ /\ NoFault
        /\ fsTmp' = [fsTmp EXCEPT !.exists = TRUE]
        /\ run' = [run EXCEPT ![b].pc = "m_zip"]
        /\ UNCHANGED res
     \/ /\ Fault
        /\ ~fsTmp.exists
        /\ Raise(b, "IOError")
        /\ run' = [run EXCEPT ![b] = Ended([run[b] EXCEPT !.raised = "IOError"])]
        /\ UNCHANGED fsTmp
  /\ UNCHANGED <<impl, genOut, active, bld, fsRoot, fsDest, fsStray, evt, calls, repairVars>>


\* -------------------------------------------------------------- archives

Entry(name, method, content) ==
  [name |-> name, method |-> method, content |-> content]

\* the members of a set of paths in one fixed order
RECURSIVE SetToSeq(_)
SetToSeq(S) ==
  IF S = {} THEN <<>>
  ELSE LET x == CHOOSE y \in S : TRUE IN <<x>> \o SetToSeq(S \ {x})

FileEntries(tree, paths) ==
  [i \in DOMAIN paths |-> Entry(paths[i], "DEFLATE", tree.files[paths[i]])]

\* zip(tempPath, tempOutputFile) of react-native-zip-archive: every file of
\* the folder, compressed, whichever the library meets first being first
MainArchives(tree) ==
  IF DOMAIN tree.files = {} THEN {<<>>}
  ELSE {FileEntries(tree, <<f>> \o SetToSeq((DOMAIN tree.files) \ {f})) :
          f \in DOMAIN tree.files}

PutTmpFile(tmp, b, a) ==
  [tmp EXCEPT !.files = [q \in (DOMAIN tmp.files) \cup {b} |->
                           IF q = b THEN a ELSE tmp.files[q]]]

\* zip(): fails when the working root or the temporary output root is gone;
\* a failing zip is taken to leave no file behind
MainZip(b) ==
  /\ impl = "main" /\ b \in active /\ Pc(b) = "m_zip"
  /\ \/ /\ NoFault
        /\ fsRoot[b].exists /\ fsTmp.exists
        /\ \E a \in MainArchives(fsRoot[b].tree) :
             fsTmp' = PutTmpFile(fsTmp, b, Archive(a))
        /\ run' = [run EXCEPT ![b].pc = "m_copy"]
        /\ UNCHANGED res
     \/ /\ Fault \/ (~(fsRoot[b].exists /\ fsTmp.exists) /\ NoFault)
        /\ Raise(b, "IOError")
        /\ run' = [run EXCEPT ![b] = Ended([run[b] EXCEPT !.raised = "IOError"])]
        /\ UNCHANGED fsTmp
  /\ UNCHANGED <<impl, genOut, active, bld, fsRoot, fsDest, fsStray, evt, calls, repairVars>>

\* copyFile(tempOutputFile, outputFile, replace): taken as one step that
\* replaces the destination or fails and leaves it. With outputPath
\* undefined the output file is the relative path "undefined/<name>.epub",
\* the path save() returns then
MainCopy(b) ==
  /\ impl = "main" /\ b \in active /\ Pc(b) = "m_copy"
  /\ \/ /\ NoFault
        /\ b \in DOMAIN fsTmp.files
        /\ IF bld[b].outputPath
           THEN /\ fsDest' = [fsDest EXCEPT ![b] = fsTmp.files[b]]
                /\ run' = [run EXCEPT ![b].wrote = TRUE, ![b].cont = "finish",
                             ![b].pc = IF run[b].rm THEN "md_root" ELSE "m_fin"]
                /\ UNCHANGED fsStray
           ELSE /\ fsStray' = [fsStray EXCEPT ![b] = TRUE]
                /\ run' = [run EXCEPT ![b].wrote = TRUE, ![b].cont = "finish",
                             ![b].pc = IF run[b].rm THEN "md_root" ELSE "m_fin"]
                /\ UNCHANGED fsDest
        /\ UNCHANGED res
     \/ /\ Fault \/ (b \notin DOMAIN fsTmp.files /\ NoFault)
        /\ Raise(b, "IOError")
        /\ run' = [run EXCEPT ![b] = Ended([run[b] EXCEPT !.raised = "IOError"])]
        /\ UNCHANGED <<fsDest, fsStray>>
  /\ UNCHANGED <<impl, genOut, active, bld, fsRoot, fsTmp, evt, calls, repairVars>>

\* dProgress = 100, the 'Finished' event, return outputFile
MainFinish(b) ==
  /\ impl = "main" /\ b \in active /\ Pc(b) = "m_fin"
  /\ NoFault
  /\ bld' = [bld EXCEPT ![b].dProgress = 100]
  /\ evt' = [evt EXCEPT ![b] = Emit(@, 100)]
  /\ Return(b)
  /\ run' = [run EXCEPT ![b] = Ended(run[b])]
  /\ UNCHANGED <<impl, genOut, active, fsRoot, fsTmp, fsDest, fsStray, calls, repairVars>>


\* ------------------------------------------- part_002: prepare, discard

\* prepare(): prepared is set first, then createTempFolder sets tempPath
ExpoPrepare(b) ==
  /\ impl = "expo" /\ CanCall(b)
  /\ NoFault
  /\ calls' = [calls EXCEPT ![b] = @ + 1]
  /\ bld' = [bld EXCEPT ![b].prepared = TRUE, ![b].tempPath = TRUE]
  /\ run' = [run EXCEPT ![b] = Started("prepare", "x_mkroot")]
  /\ UNCHANGED <<impl, genOut, active, res, fsRoot, fsTmp, fsDest, fsStray, evt, repairVars>>

\* createDirectoryRecursively(tempPath)
ExpoMkRoot(b) ==
  /\ impl = "expo" /\ b \in active /\ Pc(b) = "x_mkroot"
  /\ \/ /\ NoFault
        /\ fsRoot' = [fsRoot EXCEPT ![b].exists = TRUE]
        /\ run' = [run EXCEPT ![b].pc = "x_mktmp"]
        /\ UNCHANGED res
     \/ /\ Fault
        /\ ~fsRoot[b].exists
        /\ Raise(b, "IOError")
        /\ run' = [run EXCEPT ![b] = Ended([run[b] EXCEPT !.raised = "IOError"])]
        /\ UNCHANGED fsRoot
  /\ UNCHANGED <<impl, genOut, active, bld, fsTmp, fsDest, fsStray, evt, calls, repairVars>>

\* createDirectoryRecursively(tempOutputPath)
ExpoMkTmp(b) ==
  /\ impl = "expo" /\ b \in active /\ Pc(b) = "x_mktmp"
  /\ \/ /\ NoFault
        /\ fsTmp' = [fsTmp EXCEPT !.exists = TRUE]
        /\ run' = [run EXCEPT ![b].pc = "x_prepfin"]
        /\ UNCHANGED res
     \/ /\ Fault
        /\ ~fsTmp.exists
        /\ Raise(b, "IOError")
        /\ run' = [run EXCEPT ![b] = Ended([run[b] EXCEPT !.raised = "IOError"])]
        /\ UNCHANGED fsTmp
  /\ UNCHANGED <<impl, genOut, active, bld, fsRoot, fsDest, fsStray, evt, calls, repairVars>>

\* the end of prepare(): the chapter list defaults to []; prepare() returns
\* to its caller or to the save() that called it
ExpoPrepareFinish(b) ==
  /\ impl = "expo" /\ b \in active /\ Pc(b) = "x_prepfin"
  /\ NoFault
  /\ bld' = [bld EXCEPT ![b].chapters =
               IF @.def THEN @ ELSE ChapterList(<<>>)]
  /\ IF run[b].op = "prepare"
     THEN /\ Return(b)
          /\ run' = [run EXCEPT ![b] = Ended(run[b])]
     ELSE /\ run' = [run EXCEPT ![b].pc = "x_pop"]
          /\ UNCHANGED res
  /\ UNCHANGED <<impl, genOut, active, fsRoot, fsTmp, fsDest, fsStray, evt, calls, repairVars>>

\* the catch block of save(): discardChanges(), then throw error
ExpoCatch(r, e) ==
  [r EXCEPT !.raised = e, !.at = r.pc, !.cont = "rethrow", !.pc = "xd_root"]

\* discardChanges()
ExpoDiscardChanges(b) ==
  /\ impl = "expo" /\ CanCall(b)
  /\ NoFault
  /\ calls' = [calls EXCEPT ![b] = @ + 1]
  /\ run' = [run EXCEPT ![b] =
               [Started("discard", "xd_root") EXCEPT !.cont = "return"]]
  /\ UNCHANGED <<impl, genOut, active, bld, res, fsRoot, fsTmp, fsDest, fsStray, evt, repairVars>>

\* if (tempPath) removeDir(tempPath): removeDir logs a failing delete and
\* returns
ExpoRmRoot(b) ==
  /\ impl = "expo" /\ b \in active /\ Pc(b) = "xd_root"
  /\ \/ /\ NoFault
        /\ fsRoot' = IF bld[b].tempPath THEN [fsRoot EXCEPT ![b] = NoRoot] ELSE fsRoot
        /\ run' = [run EXCEPT ![b].pc = "xd_tmp"]
     \/ /\ Fault
        /\ bld[b].tempPath /\ fsRoot[b].exists
        /\ UNCHANGED fsRoot
        /\ run' = [run EXCEPT ![b].pc = "xd_tmp", ![b].rmfail = TRUE]
  /\ UNCHANGED <<impl, genOut, active, bld, res, fsTmp, fsDest, fsStray, evt, calls, repairVars>>

\* removeDir(tempOutputPath), tempPath = undefined, and on in the caller
ExpoRmTmp(b) ==
  /\ impl = "expo" /\ b \in active /\ Pc(b) = "xd_tmp"
  /\ \/ NoFault /\ fsTmp' = NoTmp
     \/ Fault /\ fsTmp.exists /\ UNCHANGED fsTmp
  /\ bld' = [bld EXCEPT ![b].tempPath = FALSE]
  /\ CASE run[b].cont = "finish" ->
            /\ run' = [run EXCEPT ![b].pc = "x_fin"]
            /\ UNCHANGED res
       [] run[b].cont = "rethrow" ->
            /\ Raise(b, run[b].raised)
            /\ run' = [run EXCEPT ![b] = Ended(run[b])]
       [] OTHER ->
            /\ Return(b)
            /\ run' = [run EXCEPT ![b] = Ended(run[b])]
  /\ UNCHANGED <<impl, genOut, active, fsRoot, fsDest, fsStray, evt, calls, repairVars>>


\* ---------------------------------------------------- part_002: populate

ImageBytes == <<Text("image")>>

\* one file of the staging loop, every file operation succeeding: the parent
\* directory is made, the mimetype file gets the fixed text, an image is
\* copied when its source exists, any other file is deleted and rewritten
ExpoStageTree(tree, file, srcExists) ==
  LET t1 == MkDirs(tree, file.path.dir)
  IN IF file.path = MimetypePath THEN PutFile(t1, file.path, MimetypeText)
     ELSE IF file.isImage
          THEN (IF srcExists THEN PutFile(t1, file.path, ImageBytes) ELSE t1)
     ELSE PutFile(t1, file.path, file.content)

\* the trees a failing file operation of that iteration can leave: the tree
\* as it was, the tree after the delete, or after the create with nothing
\* written
ExpoStageFailures(tree, file, srcExists) ==
  LET t1 == MkDirs(tree, file.path.dir)
  IN {tree} \cup
     (IF file.path = MimetypePath
      THEN (IF FileExists(t1, file.path) THEN {} ELSE {PutFile(t1, file.path, <<>>)})
      ELSE IF file.isImage /\ ~srcExists THEN {}
      ELSE {DelFile(t1, file.path), PutFile(t1, file.path, <<>>)})

\* the event of line 273 is skipped by the continue of the mimetype branch
ExpoStageReports(file) == file.path # MimetypePath

\* save(): prepare() first when it was never called. rm is the
\* removeTempFile argument of the caller: this save() declares no parameter
\* and reads none
ExpoSave(b, rm) ==
  /\ impl = "expo" /\ CanCall(b)
  /\ NoFault
  /\ calls' = [calls EXCEPT ![b] = @ + 1]
  /\ evt' = [evt EXCEPT ![b] = NoEvents]
  /\ IF ~bld[b].prepared
     THEN /\ bld' = [bld EXCEPT ![b].prepared = TRUE, ![b].tempPath = TRUE]
          /\ run' = [run EXCEPT ![b] = [Started("save", "x_mkroot") EXCEPT !.rm = rm]]
     ELSE /\ run' = [run EXCEPT ![b] = [Started("save", "x_pop") EXCEPT !.rm = rm]]
          /\ UNCHANGED bld
  /\ UNCHANGED <<impl, genOut, active, res, fsRoot, fsTmp, fsDest, fsStray, repairVars>>

\* populate(): throws when tempPath is undefined
ExpoPopulate(b) ==
  /\ impl = "expo" /\ b \in active /\ Pc(b) = "x_pop"
  /\ NoFault
  /\ run' = [run EXCEPT ![b] =
               IF bld[b].tempPath THEN [@ EXCEPT !.pc = "x_gen"]
               ELSE ExpoCatch(@, "TempPathError")]
  /\ UNCHANGED <<impl, genOut, active, bld, res, fsRoot, fsTmp, fsDest, fsStray, evt, calls, repairVars>>

\* the generator calls its progress callback: dProgress = progress, and the
\* static hook gets the generator's value
ExpoGenProgress(b, v) ==
  /\ impl = "expo" /\ b \in active /\ Pc(b) = "x_gen"
  /\ NoFault
  /\ run[b].gen < MaxGenCalls /\ v >= run[b].gv
  /\ bld' = [bld EXCEPT ![b].dProgress = v]
  /\ evt' = [evt EXCEPT ![b] = Emit(@, v)]
  /\ run' = [run EXCEPT ![b].gen = @ + 1, ![b].gv = v]
  /\ UNCHANGED <<impl, genOut, active, res, fsRoot, fsTmp, fsDest, fsStray, calls, repairVars>>

\* the generator raises: the catch block of save() takes it
ExpoGenRaise(b) ==
  /\ impl = "expo" /\ b \in active /\ Pc(b) = "x_gen"
  /\ NoFault
  /\ run' = [run EXCEPT ![b] = ExpoCatch(@, "GenError")]
  /\ UNCHANGED <<impl, genOut, active, bld, res, fsRoot, fsTmp, fsDest, fsStray, evt, calls, repairVars>>

ExpoGenReturn(b) ==
  LET fs == genOut[b] IN
  /\ impl = "expo" /\ b \in active /\ Pc(b) = "x_gen"
  /\ NoFault
  /\ run' = [run EXCEPT ![b].files = fs, ![b].idx = 1, ![b].gen = 0, ![b].gv = 0,
                        ![b].pc = IF fs = <<>> THEN "x_clean" ELSE "x_stage"]
  /\ UNCHANGED <<impl, genOut, active, bld, res, fsRoot, fsTmp, fsDest, fsStray, evt, calls, repairVars>>

\* one iteration of the staging loop: the try block, and its catch, which
\* logs the error and goes on with the next file
ExpoStage(b) ==
  LET file == run[b].files[run[b].idx]
      p == Percent(run[b].idx, Len(run[b].files))
      tree == fsRoot[b].tree
      next == IF run[b].idx = Len(run[b].files) THEN "x_clean" ELSE "x_stage"
  IN
  /\ impl = "expo" /\ b \in active /\ Pc(b) = "x_stage"
  /\ bld' = [bld EXCEPT ![b].dProgress = p]
  /\ \E srcExists \in (IF file.isImage THEN BOOLEAN ELSE {TRUE}) :
       \/ /\ NoFault
          /\ fsRoot' = [fsRoot EXCEPT ![b] =
                          [exists |-> TRUE, tree |-> ExpoStageTree(tree, file, srcExists)]]
          /\ evt' = [evt EXCEPT ![b] = IF ExpoStageReports(file) THEN Emit(@, p) ELSE @]
          /\ run' = [run EXCEPT ![b].idx = @ + 1, ![b].pc = next]
       \/ /\ Fault
          /\ \E t \in ExpoStageFailures(tree, file, srcExists) :
               fsRoot' = [fsRoot EXCEPT ![b].tree = t,
                                        ![b].exists = @ \/ t # EmptyTree]
          /\ run' = [run EXCEPT ![b].idx = @ + 1, ![b].pc = next, ![b].failed = TRUE]
          /\ UNCHANGED evt
  /\ UNCHANGED <<impl, genOut, active, res, fsTmp, fsDest, fsStray, calls, repairVars>>

\* after the loop: script.js and EPUB/script.js are deleted when they exist;
\* a failing delete is not caught in populate()
ExpoCleanScripts(b) ==
  LET tree == fsRoot[b].tree
      scripts == {ScriptPath(""), ScriptPath(EpubDir)} \cap DOMAIN tree.files
  IN
  /\ impl = "expo" /\ b \in active /\ Pc(b) = "x_clean"
  /\ \/ /\ NoFault
        /\ fsRoot' = [fsRoot EXCEPT ![b].tree =
                        DelFile(DelFile(tree, ScriptPath("")), ScriptPath(EpubDir))]
        /\ run' = [run EXCEPT ![b].pc = "x_fix"]
     \/ /\ Fault
        /\ scripts # {}
        /\ run' = [run EXCEPT ![b] = ExpoCatch(@, "IOError")]
        /\ UNCHANGED fsRoot
  /\ UNCHANGED <<impl, genOut, active, bld, res, fsTmp, fsDest, fsStray, evt, calls, repairVars>>


\* -------------------------------------------------------- part_002: save

\* fixEpubStructure() inside save(). Directory.list() of a package root that
\* does not exist throws or lists nothing, as the platform has it; reading
\* or writing a file can fail; an error is rethrown to the catch of save()
ExpoRepair(b) ==
  LET tree == fsRoot[b].tree
  IN
  /\ impl = "expo" /\ b \in active /\ Pc(b) = "x_fix"
  /\ \/ /\ NoFault
        /\ \E t \in RepairOutcomes(tree) : fsRoot' = [fsRoot EXCEPT ![b].tree = t]
        /\ run' = [run EXCEPT ![b].pc = "x_mkout"]
     \/ /\ \/ Fault /\ OpfCandidates(tree) # {}
           \/ NoFault /\ EpubDir \notin tree.dirs
        /\ run' = [run EXCEPT ![b] = ExpoCatch(@, "IOError")]
        /\ UNCHANGED fsRoot
  /\ UNCHANGED <<impl, genOut, active, bld, res, fsTmp, fsDest, fsStray, evt, calls, repairVars>>

\* validateDir(outputPath)
ExpoMkOut(b) ==
  /\ impl = "expo" /\ b \in active /\ Pc(b) = "x_mkout"
  /\ \/ NoFault /\ run' = [run EXCEPT ![b].pc = "x_zip"]
     \/ Fault /\ run' = [run EXCEPT ![b] = ExpoCatch(@, "IOError")]
  /\ UNCHANGED <<impl, genOut, active, bld, res, fsRoot, fsTmp, fsDest, fsStray, evt, calls, repairVars>>

FolderEntry(dir) == Entry(Path(dir, "", ""), "STORE", <<>>)

\* the files epubStructure names, in its order, that exist
ExpoKeyFiles(tree) ==
  SelectSeq(<<Path("META-INF", "container", "xml"), Path("OEBPS", "content", "opf"),
              Path("OEBPS", "toc", "ncx")>>,
            LAMBDA q : FileExists(tree, q))

\* the JSZip archive: mimetype first and stored when the staged file exists,
\* then META-INF/, OEBPS/ and the key files, then what addFolderToZip finds
\* and the archive does not hold yet, top-level mimetype and script.js left
\* out. The folder entries JSZip adds for the parents of a file are left out
ExpoArchive(tree) ==
  LET key == ExpoKeyFiles(tree)
      rest == (DOMAIN tree.files) \ ({MimetypePath, ScriptPath("")} \cup Range(key))
  IN (IF FileExists(tree, MimetypePath)
      THEN <<Entry(MimetypePath, "STORE", tree.files[MimetypePath])>> ELSE <<>>)
     \o <<FolderEntry("META-INF"), FolderEntry("OEBPS")>>
     \o FileEntries(tree, key)
     \o FileEntries(tree, SetToSeq(rest))

\* the archive is built in memory; reading a staged file, listing the
\* working root or generateAsync can fail
ExpoZip(b) ==
  /\ impl = "expo" /\ b \in active /\ Pc(b) = "x_zip"
  /\ \/ /\ NoFault
        /\ fsRoot[b].exists
        /\ run' = [run EXCEPT ![b].zip = ExpoArchive(fsRoot[b].tree), ![b].pc = "x_ddel"]
     \/ /\ Fault \/ (~fsRoot[b].exists /\ NoFault)
        /\ run' = [run EXCEPT ![b] = ExpoCatch(@, "IOError")]
  /\ UNCHANGED <<impl, genOut, active, bld, res, fsRoot, fsTmp, fsDest, fsStray, evt, calls, repairVars>>

\* if (outputFile.exists) outputFile.delete()
ExpoDestDelete(b) ==
  /\ impl = "expo" /\ b \in active /\ Pc(b) = "x_ddel"
  /\ \/ /\ NoFault
        /\ fsDest' = [fsDest EXCEPT ![b] = Absent]
        /\ run' = [run EXCEPT ![b].pc = "x_dcreate"]
     \/ /\ Fault
        /\ fsDest[b] # Absent
        /\ run' = [run EXCEPT ![b] = ExpoCatch(@, "IOError")]
        /\ UNCHANGED fsDest
  /\ UNCHANGED <<impl, genOut, active, bld, res, fsRoot, fsTmp, fsStray, evt, calls, repairVars>>

\* outputFile.create()
ExpoDestCreate(b) ==
  /\ impl = "expo" /\ b \in active /\ Pc(b) = "x_dcreate"
  /\ \/ /\ NoFault
        /\ fsDest' = [fsDest EXCEPT ![b] = EmptyFile]
        /\ run' = [run EXCEPT ![b].pc = "x_dwrite"]
     \/ /\ Fault
        /\ run' = [run EXCEPT ![b] = ExpoCatch(@, "IOError")]
        /\ UNCHANGED fsDest
  /\ UNCHANGED <<impl, genOut, active, bld, res, fsRoot, fsTmp, fsStray, evt, calls, repairVars>>

\* outputFile.write(content), then discardChanges()
ExpoDestWrite(b) ==
  /\ impl = "expo" /\ b \in active /\ Pc(b) = "x_dwrite"
  /\ \/ /\ NoFault
        /\ fsDest' = [fsDest EXCEPT ![b] = Archive(run[b].zip)]
        /\ run' = [run EXCEPT ![b].wrote = TRUE, ![b].cont = "finish", ![b].pc = "xd_root"]
     \/ /\ Fault
        /\ run' = [run EXCEPT ![b] = ExpoCatch(@, "IOError")]
        /\ UNCHANGED fsDest
  /\ UNCHANGED <<impl, genOut, active, bld, res, fsRoot, fsTmp, fsStray, evt, calls, repairVars>>

\* dProgress = 100, the 'Finished' event, return outputFilePath. An error of
\* the callback is not modelled
ExpoFinish(b) ==
  /\ impl = "expo" /\ b \in active /\ Pc(b) = "x_fin"
  /\ NoFault
  /\ bld' = [bld EXCEPT ![b].dProgress = 100]
  /\ evt' = [evt EXCEPT ![b] = Emit(@, 100)]
  /\ Return(b)
  /\ run' = [run EXCEPT ![b] = Ended(run[b])]
  /\ UNCHANGED <<impl, genOut, active, fsRoot, fsTmp, fsDest, fsStray, calls, repairVars>>

\* ------------------------------------------------------ the specification

Init == InitLife({1}, GenOutputs) /\ RepairIdle

Step(b) ==
  \/ MainPrepare(b) \/ MainMkRoot(b) \/ MainPickFolder(b) \/ MainPrepareFinish(b)
  \/ MainAddChapter(b, Len(bld[b].chapters.list) + 1)
  \/ MainDiscardChanges(b) \/ MainRmRoot(b) \/ MainRmTmp(b)
  \/ \E rm \in BOOLEAN : MainSave(b, rm)
  \/ \E v \in GenValues : MainGenProgress(b, v)
  \/ MainGenRaise(b)
  \/ MainGenReturn(b)
  \/ MainStage(b) \/ MainClearTmp(b) \/ MainMkTmp(b) \/ MainZip(b) \/ MainCopy(b)
  \/ MainFinish(b)
  \/ ExpoPrepare(b) \/ ExpoMkRoot(b) \/ ExpoMkTmp(b) \/ ExpoPrepareFinish(b)
  \/ ExpoDiscardChanges(b) \/ ExpoRmRoot(b) \/ ExpoRmTmp(b)
  \/ \E rm \in BOOLEAN : ExpoSave(b, rm)
  \/ ExpoPopulate(b)
  \/ \E v \in GenValues : ExpoGenProgress(b, v)
  \/ ExpoGenRaise(b)
  \/ ExpoGenReturn(b)
  \/ ExpoStage(b) \/ ExpoCleanScripts(b) \/ ExpoRepair(b) \/ ExpoMkOut(b)
  \/ ExpoZip(b) \/ ExpoDestDelete(b) \/ ExpoDestCreate(b) \/ ExpoDestWrite(b)
  \/ ExpoFinish(b)

Next == \E b \in Builders : Step(b)

Spec == Init /\ [][Next]_vars

\* ------------------------------------------------- two builders at once

\* what the generator of either builder emits
PairOutput == <<GenFile(OpfPath, GenOpf, FALSE)>>

\* two builders with distinct file names, hence distinct working roots and
\* output files, the second one with a destination folder; their calls
\* interleave at every await
InitPair ==
  /\ InitLife(Builders, {PairOutput})
  /\ bld[2].outputPath
  /\ \A b \in Builders :
       /\ genOut[b] = PairOutput
       /\ bld[b].chapters.def
       /\ fsDest[b] = Absent
  /\ RepairIdle

SpecPair == InitPair /\ [][Next]_vars

\* ------------------------------------------------- the repair on its own

\* names the chapter files of a staged tree are taken from
Stems == <<"a", "b", "c">>

ChapterStems == {Stems[i] : i \in {j \in DOMAIN Stems : j <= MaxChapterFiles}}

\* the manifest blocks a generated package document can hold: none; the
\* bare tag with a stylesheet, the NCX and a chapter under a title-derived
\* id; the same with an attribute on the opening tag; the bare tag with a
\* stylesheet whose id is chapter0
PriorItems(cssId) ==
  <<Item(cssId, Href("", "styles", "css"), CssType, FALSE),
    Item(Id("ncx", -1), Href("", "toc", "ncx"), NcxType, FALSE),
    Item(Id("x", -1), Href("content", "a", "xhtml"), XhtmlType, FALSE)>>

PriorManifests ==
  {<<>>,
   <<[t |-> "manifestOpen"]>> \o PriorItems(Id("css", -1)) \o <<[t |-> "manifestClose"]>>,
   <<[t |-> "manifestOpenAttrs"]>> \o PriorItems(Id("css", -1)) \o <<[t |-> "manifestClose"]>>,
   <<[t |-> "manifestOpen"]>> \o PriorItems(Id("chapter", 0)) \o <<[t |-> "manifestClose"]>>}

\* the spine blocks: none; one that references x and y; the self-closing tag
PriorSpines ==
  {<<>>,
   <<[t |-> "spineOpen", attrs |-> ""], ItemRef(Id("x", -1)), ItemRef(Id("y", -1)),
     [t |-> "spineClose"]>>,
   <<[t |-> "spineEmpty"]>>}

PackageDocs ==
  {<<Text("package")>> \o m \o sp \o <<Text("/package")>> :
     m \in PriorManifests, sp \in PriorSpines}

\* toc.ncx: a head, a navMap (its opening tag bare or with an attribute)
\* with one navPoint, and a tail
NcxDocs ==
  {<<Text("ncxhead"), [t |-> k], NavPoint(Id("x", -1), 1, Href("content", "a", "xhtml")),
     [t |-> "navMapClose"], Text("ncxtail")>> : k \in {"navMapOpen", "navMapOpenAttrs"}}

\* tree with the file p holding c, or tree itself when there is no text c
WithFile(tree, p, c) == IF c = <<>> THEN tree ELSE PutFile(tree, p, c)

RECURSIVE WithChapters(_, _, _)
WithChapters(tree, dir, stems) ==
  IF stems = {} THEN tree
  ELSE LET st == CHOOSE x \in stems : TRUE
       IN WithChapters(PutFile(tree, Path(dir, st, "xhtml"), <<Text(st)>>),
                       dir, stems \ {st})

\* the staged trees the repair is run on: the package root exists, the
\* chapters lie in content/ or directly in the package root, and there are
\* at most MaxChapterFiles markup files, the navigation documents counted
RepairTrees ==
  {WithFile(WithFile(WithFile(WithFile(
      WithChapters([dirs |-> DirsOf(dir), files |-> <<>>], dir, stems),
      OpfPath, opf), NcxPath, ncx), NavPath, nav), AltNavPath, alt) :
     dir \in {EpubDir, ContentDir},
     stems \in SUBSET ChapterStems,
     opf \in PackageDocs \cup {<<>>},
     ncx \in NcxDocs \cup {<<>>},
     nav \in {<<>>, <<Text("nav")>>},
     alt \in {<<>>, <<Text("nav")>>}}

RepairInputs ==
  {t \in RepairTrees :
     Cardinality({p \in DOMAIN t.files : IsMarkup(p)}) <= MaxChapterFiles}

InitRepair ==
  /\ InitLife({}, {})
  /\ impl = "expo"
  /\ rtree \in RepairInputs
  /\ rin = rtree
  /\ rchap = <<>>
  /\ rres = "none"
  /\ rruns = 0

\* fixEpubStructure() with every file operation succeeding
RepairRun ==
  /\ rruns < MaxRuns
  /\ OpfCandidates(rtree) # {}
  /\ \E listing \in Perms(ChapterCandidates(rtree)), opf \in OpfCandidates(rtree) :
       /\ rtree' = FixEpubStructure(rtree, listing, opf)
       /\ rchap' = [i \in DOMAIN listing |-> ChapterHref(listing[i])]
  /\ rin' = rtree
  /\ rres' = "ok"
  /\ rruns' = rruns + 1
  /\ UNCHANGED lifeVars

\* fixEpubStructure() on a tree without a package document: 'OPF file not
\* found' is logged and the function returns
RepairNoOpf ==
  /\ rruns < MaxRuns
  /\ OpfCandidates(rtree) = {}
  /\ \E listing \in Perms(ChapterCandidates(rtree)) :
       rchap' = [i \in DOMAIN listing |-> ChapterHref(listing[i])]
  /\ rin' = rtree
  /\ rres' = "ok"
  /\ rruns' = rruns + 1
  /\ UNCHANGED <<lifeVars, rtree>>

NextRepair == RepairRun \/ RepairNoOpf

SpecRepair == InitRepair /\ [][NextRepair]_vars

\* ----------------------------------------------------- what the calls did

\* save() has returned its path to the caller, and no later call has begun
SaveReturned(b) == Pc(b) = "idle" /\ run[b].op = "save" /\ res[b].status = "ok"

\* save() has raised, and no later call has begun
SaveRaised(b) == Pc(b) = "idle" /\ run[b].op = "save" /\ res[b].status = "error"

\* the positions of the phases of save(): staging (the generator and the
\* staging loop), repair, archiving (up to the output file being written)
StagingPcs == {"m_gen", "m_stage", "x_pop", "x_gen", "x_stage", "x_clean"}

RepairPcs == {"x_fix"}

ArchivingPcs ==
  {"m_rmtmp", "m_mktmp", "m_zip", "m_copy",
   "x_mkout", "x_zip", "x_ddel", "x_dcreate", "x_dwrite"}

\* save() has raised out of one of its phases
PhaseFailed(b) ==
  SaveRaised(b) /\ run[b].at \in StagingPcs \cup RepairPcs \cup ArchivingPcs

\* this step belongs to a discardChanges() call of the caller
DiscardStep(b) == run'[b] # run[b] /\ run'[b].op = "discard"

\* this step is an addChapter() call
AddChapterStep(b) == calls'[b] = calls[b] + 1 /\ run'[b].op = "addChapter"

\* the <item> entries and the <itemref> entries of a package document
Items(doc) == SelectSeq(doc, LAMBDA tok : tok.t = "item")

ItemRefs(doc) == SelectSeq(doc, LAMBDA tok : tok.t = "itemref")

\* the package document of the tree the repair was run on alone
Repaired == rruns > 0 /\ FileExists(rtree, OpfPath)

RepairedDoc == rtree.files[OpfPath]

\* ------------------------------------------------------------- properties

\* C1: the first entry of every archive save() leaves at the destination is
\* mimetype, stored uncompressed, holding exactly application/epub+zip
C1_MimetypeFirst ==
  \A b \in active :
    fsDest[b].kind = "archive" =>
      /\ Len(fsDest[b].entries) > 0
      /\ fsDest[b].entries[1].name = MimetypePath
      /\ fsDest[b].entries[1].method = "STORE"
      /\ fsDest[b].entries[1].content = MimetypeText

\* C2: every step that changes what the destination path holds puts a
\* completely written archive there: the path never loses what it held and
\* never holds an empty or partial file
C2_DestinationAtomic ==
  [][\A b \in active : fsDest'[b] # fsDest[b] => fsDest'[b].kind = "archive"]_vars

\* C3: when save() has returned a path, that call wrote an archive to it
C3_ReturnedPathHoldsArchive ==
  \A b \in active : SaveReturned(b) => run[b].wrote

\* C4: when save() has raised out of staging, repair or archiving, the
\* working root is gone unless its removal itself failed, and the error the
\* caller got is the one first thrown
C4_FailedSaveCleansUp ==
  \A b \in active :
    PhaseFailed(b) =>
      /\ ~fsRoot[b].exists \/ run[b].rmfail
      /\ res[b].err = run[b].raised

\* C5: once a file operation of the staging loop has failed, save() has
\* ended by raising that error: it is nowhere in a later phase and has not
\* returned a path
C5_StagingFailurePropagates ==
  \A b \in active :
    run[b].failed =>
      Pc(b) = "idle" /\ res[b].status = "error" /\ res[b].err = "IOError"

\* C6: addChapter() made before any call has ended, after a save() that
\* returned, or after a prepare(), save() or addChapter() that raised, fails
\* with a state error and leaves the chapter list as it is; made right after
\* a prepare() that returned it appends the chapter at the end of the list
C6_AddChapterOnlyWhenPrepared ==
  [][\A b \in active :
       AddChapterStep(b) =>
         IF \/ res[b].op = "none"
            \/ res[b].op = "save" /\ res[b].status = "ok"
            \/ res[b].op \in {"prepare", "save", "addChapter"} /\ res[b].status = "error"
         THEN /\ res'[b].status = "error" /\ res'[b].err = "StateError"
              /\ bld'[b].chapters = bld[b].chapters
         ELSE IF res[b].op = "prepare"
         THEN /\ res'[b].status = "ok"
              /\ bld'[b].chapters.list =
                   Append(bld[b].chapters.list, Len(bld[b].chapters.list) + 1)
         ELSE TRUE]_vars

\* C7: discardChanges() raises only an IOError and only while a directory it
\* is to remove exists; made before any other call it changes nothing and
\* returns; made right after a discardChanges() that returned with no file
\* operation failing, it changes nothing and returns
C7_DiscardLegalAndIdempotent ==
  [][\A b \in active :
       DiscardStep(b) =>
         /\ (Pc(b)' = "idle" /\ res'[b].status = "error") =>
              /\ res'[b].err = "IOError"
              /\ fsRoot[b].exists \/ fsTmp.exists
         /\ (\/ res[b].op = "none"
             \/ res[b].op = "discard" /\ res[b].status = "ok" /\ res[b].clean) =>
              /\ bld'[b] = bld[b]
              /\ fsRoot'[b] = fsRoot[b] /\ fsTmp' = fsTmp /\ fsDest'[b] = fsDest[b]
              /\ Pc(b)' = "idle" => res'[b].status = "ok"]_vars

\* a second discardChanges() in a row is at its last step, after a prepare()
\* made the directories the first one removed
C7_Witness ==
  /\ impl = "expo" /\ bld[1].prepared
  /\ res[1].op = "discard" /\ res[1].status = "ok" /\ res[1].clean
  /\ run[1].op = "discard" /\ Pc(1) = "xd_tmp"

\* C8: every progress value delivered is in 0..100, and within one save() no
\* value is lower than the one delivered before it
C8_ProgressMonotone ==
  [][\A b \in active :
       /\ evt'[b].last \in {NoEvent} \cup (0..100)
       /\ (evt[b].last # NoEvent /\ evt'[b].last # NoEvent) =>
            evt'[b].last >= evt[b].last]_vars

\* C9: in a repaired package document the ids of the manifest items are
\* pairwise distinct, every item of a chapter file has an id chapter<digits>,
\* and every spine itemref names the id of a manifest item
C9_ManifestAndSpineIds ==
  Repaired =>
    LET items == Items(RepairedDoc)
        refs == ItemRefs(RepairedDoc)
    IN /\ \A i, j \in DOMAIN items : i # j => items[i].id # items[j].id
       /\ \A i \in DOMAIN items :
            items[i].href \in Range(rchap) =>
              items[i].id.p = "chapter" /\ items[i].id.n >= 0
       /\ \A k \in DOMAIN refs : \E i \in DOMAIN items : items[i].id = refs[k].idref

\* C10: the spine of a repaired package document is exactly the itemrefs
\* chapter0, chapter1, ... one per chapter file in the order the files were
\* listed, whatever the spine held before
C10_SpineRebuilt ==
  Repaired =>
    ItemRefs(RepairedDoc) = [i \in DOMAIN rchap |-> ItemRef(ChapterId(i))]

\* the file names of the staged trees in lexicographic order
NameOrder ==
  <<[stem |-> "a", ext |-> "xhtml"], [stem |-> "b", ext |-> "xhtml"],
    [stem |-> "c", ext |-> "xhtml"], [stem |-> "toc", ext |-> "html"],
    [stem |-> "toc", ext |-> "xhtml"]>>

NameRank(h) ==
  CHOOSE i \in DOMAIN NameOrder : NameOrder[i] = [stem |-> h.stem, ext |-> h.ext]

\* the repair has run and returned
RepairReturned == rruns > 0 /\ rres = "ok"

\* C11: the chapter files get their ids in lexicographic file name order,
\* whatever order the directory listing returned them in: the i-th chapter of
\* a repair run is the i-th file name in that order
C11_LexicographicIds ==
  RepairReturned =>
    \A i, j \in DOMAIN rchap : i < j => NameRank(rchap[i]) < NameRank(rchap[j])

\* C12: a repair run on a tree a repair run has left changes nothing: the
\* package document, the NCX and the navigation document stay as they were
C12_RepairIdempotent ==
  rruns >= 2 => rtree = rin

\* the positions of part_002's save() between the repair and the cleanup
PostRepairPcs == {"x_mkout", "x_zip", "x_ddel", "x_dcreate", "x_dwrite"}

\* C13: save() goes on past the repair only when the package root holds a
\* package document: with a package root without one the repair has raised
\* and nothing is archived
C13_MissingPackageDocFails ==
  \A b \in active :
    (impl = "expo" /\ Pc(b) \in PostRepairPcs /\ EpubDir \in fsRoot[b].tree.dirs) =>
      OpfCandidates(fsRoot[b].tree) # {}

\* this step is a step of a call on builder b
StepOf(b) == calls'[b] # calls[b] \/ run'[b] # run[b]

\* the save() of builder c has made the temporary output root and has yet to
\* zip into it or to copy its archive out of it
NeedsTmp(c) == impl = "main" /\ run[c].op = "save" /\ Pc(c) \in {"m_zip", "m_copy"}

\* C14: with every file operation succeeding, a step of one builder leaves the
\* working root and the output file of every other builder as they are, and
\* while the save() of another builder works in the temporary output root it
\* leaves that directory, and the archive the other builder has there, in
\* place
C14_BuildersIsolated ==
  [][\A b, c \in active :
       (b # c /\ StepOf(b)) =>
         /\ fsRoot'[c] = fsRoot[c]
         /\ fsDest'[c] = fsDest[c]
         /\ NeedsTmp(c) =>
              /\ fsTmp'.exists
              /\ c \in DOMAIN fsTmp.files =>
                   c \in DOMAIN fsTmp'.files /\ fsTmp'.files[c] = fsTmp.files[c]]_vars

\* the positions at which save() builds the archive from the staged tree
ZipPcs == {"m_zip", "x_zip"}

\* C15: building the archive from a staged tree without a mimetype file
\* fails: the step raises an error instead of going on to write the archive
C15_WriterRequiresMimetype ==
  [][\A b \in active :
       (/\ Pc(b) \in ZipPcs
        /\ ~FileExists(fsRoot[b].tree, MimetypePath)
        /\ run'[b] # run[b]) =>
         run'[b].raised # NoError]_vars

\* the file of the package root a manifest href names
HrefPath(h) == Path(IF h.dir = "" THEN EpubDir ELSE ContentDir, h.stem, h.ext)

\* the package document the last repair run read holds a manifest block
\* that the manifest pattern finds
ManifestFound ==
  /\ FileExists(rin, OpfPath)
  /\ MatchBlock(rin.files[OpfPath], ManifestOpenKinds, "manifestClose")[1] # 0

\* the items of a package document that carry properties="nav"
NavItems(doc) == SelectSeq(doc, LAMBDA tok : tok.t = "item" /\ tok.nav)

\* C16: a repaired package document whose manifest block was found holds
\* exactly one navigation item, and the file its href names exists
C16_OneNavEntry ==
  (Repaired /\ ManifestFound) =>
    /\ Len(NavItems(RepairedDoc)) = 1
    /\ FileExists(rtree, HrefPath(NavItems(RepairedDoc)[1].href))

\* the chapter files among the files the generator hands to save(): the
\* markup files of content/ and of the package root, the navigation document
\* apart
ChapterFilesOf(files) ==
  {files[i].path : i \in {j \in DOMAIN files :
     /\ IsMarkup(files[j].path)
     /\ files[j].path.dir \in {ContentDir, EpubDir}
     /\ files[j].path \notin {NavPath, AltNavPath}}}

\* the package documents among the entries of an archive
OpfEntries(entries) == SelectSeq(entries, LAMBDA e : e.name = OpfPath)

\* C17: when a save() of part_002 during which no file operation failed has
\* returned, the spine of the package document in the archive it wrote has
\* as many itemrefs as the generator emitted chapter files
C17_SpineCountRoundTrip ==
  \A b \in active :
    (/\ impl = "expo" /\ SaveReturned(b) /\ res[b].clean /\ run[b].wrote
     /\ OpfEntries(fsDest[b].entries) # <<>>) =>
      Len(ItemRefs(OpfEntries(fsDest[b].entries)[1].content))
        = Cardinality(ChapterFilesOf(genOut[b]))

\* the last call that ended on b is a prepare() that raised the permission
\* error of the folder picker
PrepareDenied(b) ==
  /\ Pc(b) = "idle" /\ res[b].op = "prepare"
  /\ res[b].status = "error" /\ res[b].err = "PermissionError"

\* C18: after a prepare() that raised the permission error the builder does
\* not count as prepared
C18_DeniedPrepareNotPrepared ==
  \A b \in active : PrepareDenied(b) => ~bld[b].prepared

\* the last repair run wrote the navigation document
NavSynthesized == rruns > 0 /\ ~FileExists(rin, NavPath) /\ FileExists(rtree, NavPath)

\* the <li> entries of a navigation document
ListItems(doc) == SelectSeq(doc, LAMBDA tok : tok.t = "li")

\* C19: a navigation document the repair has synthesized holds one list item
\* per chapter path, in the order of the paths, the k-th pointing at the k-th
\* path and labelled Chapter k
C19_NavListsChaptersInOrder ==
  NavSynthesized =>
    LET lis == ListItems(rtree.files[NavPath])
    IN /\ Len(lis) = Len(rchap)
       /\ \A k \in DOMAIN lis : lis[k].href = rchap[k] /\ lis[k].label = k

\* a navigation document synthesized for two chapters that the listing
\* returned against the order of their names
C19_Witness ==
  /\ NavSynthesized
  /\ Len(rchap) = 2
  /\ NameRank(rchap[1]) > NameRank(rchap[2])
  /\ Len(ListItems(rtree.files[NavPath])) = 2

\* this step is the return of a save() that wrote its archive
SaveReturns(b) ==
  /\ run[b].op = "save" /\ Pc(b) \in {"m_fin", "x_fin"} /\ run[b].wrote
  /\ Pc(b)' = "idle" /\ res'[b].status = "ok"

\* C20: when a save() that wrote its archive returns, the working root and
\* the temporary output root are gone if the caller left removeTempFile at
\* its default, and the working root is still there if the caller passed
\* false
C20_CleanupWhenRequested ==
  [][\A b \in active :
       SaveReturns(b) =>
         IF run[b].rm THEN ~fsRoot'[b].exists /\ ~fsTmp'.exists
         ELSE fsRoot'[b].exists]_vars

\* the content of the first file of files emitted under the path p
FirstEmission(files, p) ==
  files[CHOOSE i \in DOMAIN files :
          files[i].path = p /\ \A j \in DOMAIN files : files[j].path = p => i <= j].content

\* the paths of the text files among files, mimetype apart
TextPaths(files) ==
  {files[i].path : i \in {j \in DOMAIN files :
     ~files[j].isImage /\ files[j].path # MimetypePath}}

\* the staging loop of save() has ended and none of its file operations failed
StagingDone(b) ==
  /\ run[b].op = "save" /\ Pc(b) \in {"m_rmtmp", "x_clean"}
  /\ ~run[b].failed /\ bld[b].tempPath

\* C21: when the staging loop has ended with no failure, every text file the
\* generator emitted is staged with the content of its first emission, and an
\* archive at the destination holds no path twice
C21_FirstWriterWins ==
  \A b \in active :
    /\ StagingDone(b) =>
         \A p \in TextPaths(run[b].files) :
           /\ FileExists(fsRoot[b].tree, p)
           /\ fsRoot[b].tree.files[p] = FirstEmission(run[b].files, p)
    /\ \A i, j \in DOMAIN fsDest[b].entries :
         i # j => fsDest[b].entries[i].name # fsDest[b].entries[j].name

\* the items of a package document whose href is h
ItemsFor(doc, h) == SelectSeq(doc, LAMBDA tok : tok.t = "item" /\ tok.href = h)

\* C22: whatever manifest and spine the package document held, or lacked,
\* before the repair, the repaired one holds a manifest element with exactly
\* one item for every chapter file and a spine element with one itemref for
\* every chapter file
C22_RepairTotal ==
  Repaired =>
    /\ MatchBlock(RepairedDoc, {"manifestOpen", "manifestOpenAttrs"}, "manifestClose")[1] # 0
    /\ MatchBlock(RepairedDoc, SpineOpenKinds, "spineClose")[1] # 0
    /\ \A k \in DOMAIN rchap : Len(ItemsFor(RepairedDoc, rchap[k])) = 1
    /\ Len(ItemRefs(RepairedDoc)) = Len(rchap)

\* the navPoints of an NCX
NavPoints(doc) == SelectSeq(doc, LAMBDA tok : tok.t = "navPoint")

\* the text of an NCX before its navMap element, and the text after it
BeforeNavMap(doc) ==
  SubSeq(doc, 1, FirstAt(doc, 1, {"navMapOpen", "navMapOpenAttrs"}) - 1)

AfterNavMap(doc) == SubSeq(doc, FirstAt(doc, 1, {"navMapClose"}) + 1, Len(doc))

\* C23: a repair run on a tree with an NCX leaves an NCX whose navPoints are
\* chapter0, chapter1, ... with playOrder 1, 2, ... and the chapter paths, in
\* the order of the chapter files, and whose text before and after the navMap
\* is as it was; a run on a tree without an NCX returns and makes none
C23_NcxNavMapRebuilt ==
  Repaired =>
    IF FileExists(rin, NcxPath)
    THEN /\ FileExists(rtree, NcxPath)
         /\ NavPoints(rtree.files[NcxPath])
              = [i \in DOMAIN rchap |-> NavPoint(ChapterId(i), i, rchap[i])]
         /\ BeforeNavMap(rtree.files[NcxPath]) = BeforeNavMap(rin.files[NcxPath])
         /\ AfterNavMap(rtree.files[NcxPath]) = AfterNavMap(rin.files[NcxPath])
    ELSE rres = "ok" /\ ~FileExists(rtree, NcxPath)


\* this step is the return of a discardChanges() to its caller
DiscardReturns(b) ==
  /\ DiscardStep(b)
  /\ Pc(b)' = "idle" /\ res'[b].op = "discard" /\ res'[b].status = "ok"

\* C24: when discardChanges() returns, whatever the state it was called in,
\* the working root of the builder does not exist, the temporary output root
\* does not exist, and the builder holds no working-root path
C24_DiscardLeavesNothing ==
  [][\A b \in active :
       DiscardReturns(b) =>
         /\ ~fsRoot'[b].exists
         /\ ~fsTmp'.exists
         /\ ~bld'[b].tempPath]_vars


\* the items of the package document the last repair run read
PriorManifestItems == Items(rin.files[OpfPath])

\* C25: the items of a repaired package document are the stylesheet items of
\* the prior manifest, then its NCX items, each as it was written, then one
\* item per chapter id, then the navigation item, and nothing else
C25_ManifestRetainsCssAndNcx ==
  (Repaired /\ FileExists(rin, OpfPath)) =>
    Items(RepairedDoc)
      = ItemsOfType(PriorManifestItems, CssType)
        \o ItemsOfType(PriorManifestItems, NcxType)
        \o [i \in DOMAIN rchap |-> Item(ChapterId(i), rchap[i], XhtmlType, FALSE)]
        \o <<NavItem>>


\* the hrefs under which a manifest can name the navigation document
NavHrefs == {NavHref, Href("", "toc", "html")}

\* the chapter files of a staged tree: its markup files, the navigation
\* documents toc.xhtml and toc.html apart
StagedChapters(tree) ==
  {p \in DOMAIN tree.files : IsMarkup(p) /\ p \notin {NavPath, AltNavPath}}

\* C26: a repair run never takes the navigation document for a chapter: no
\* chapter id is given to toc.xhtml or toc.html, no spine itemref names an
\* item that is not the item of a chapter file, and there are as many
\* chapter ids as the tree holds chapter files
C26_NavNotAChapter ==
  Repaired =>
    /\ \A i \in DOMAIN rchap : rchap[i] \notin NavHrefs
    /\ \A k \in DOMAIN ItemRefs(RepairedDoc) :
         \A i \in DOMAIN Items(RepairedDoc) :
           Items(RepairedDoc)[i].id = ItemRefs(RepairedDoc)[k].idref =>
             Items(RepairedDoc)[i].href \notin NavHrefs
    /\ Len(rchap) = Cardinality(StagedChapters(rin))

=============================================================================
